---- MODULE Spec2Model ----
(***************************************************************************)
(* Lifecycle of a Vertex AI custom training job as driven by               *)
(* prefect_gcp.aiplatform.VertexAICustomTrainingJob: run() (build spec,    *)
(* open a client session, create the job, signal "started", watch by       *)
(* polling, interpret the final snapshot) and kill() (open a session, send *)
(* one cancel request).                                                    *)
(*                                                                         *)
(* Strings are sequences of tokens; Optional[str] is a record              *)
(* [some, val].  Time is counted in whole seconds.  The remote service is  *)
(* the environment: its answers are drawn nondeterministically.            *)
(***************************************************************************)
EXTENDS Integers, Sequences, FiniteSets, TLC

\* ------------------------------------------------------------------ bounds
\* longest image reference tried, in tokens (a prefix of ExampleImage)
MaxImageLen == 5
\* largest maximum_run_time tried, in seconds
MaxRunTime == 3
\* largest job_watch_poll_interval tried, in seconds
MaxPollInterval == 1
\* largest grace_seconds passed to kill
MaxGraceSeconds == 1
\* most entries of the configured and of the base environment
MaxEnvLen == 2
\* most calls of preview()
MaxPreviews == 2

\* ----------------------------------------------------------------- strings
\* Optional[str]
NoneStr == [some |-> FALSE, val |-> <<>>]
Some(s) == [some |-> TRUE, val |-> s]

\* Python truthiness of an Optional[str]: None and "" are falsy
Truthy(o) == o.some /\ o.val # <<>>

\* a or b
PyOr(a, b) == IF Truthy(a) THEN a ELSE b

\* needle in hay (substring test)
Contains(hay, needle) ==
    \E i \in 0..(Len(hay) - Len(needle)) :
        SubSeq(hay, i + 1, i + Len(needle)) = needle

\* s.split(sep): the list of the pieces of s between occurrences of sep
RECURSIVE Split(_, _)
Split(s, sep) ==
    IF \A i \in 1..Len(s) : s[i] # sep
    THEN <<s>>
    ELSE LET i == CHOOSE j \in 1..Len(s) :
                      s[j] = sep /\ \A k \in 1..(j - 1) : s[k] # sep
         IN  <<SubSeq(s, 1, i - 1)>> \o Split(SubSeq(s, i + 1, Len(s)), sep)

\* A dict is the sequence of its <<key, value>> items in insertion order.
DictKeys(d) == { d[i][1] : i \in 1..Len(d) }
DictGet(d, k) == d[CHOOSE i \in 1..Len(d) : d[i][1] = k][2]

\* d[k] = v: the value replaced in place, or the item appended
DictSet(d, k, v) ==
    IF k \in DictKeys(d)
    THEN [i \in 1..Len(d) |-> IF d[i][1] = k THEN <<k, v>> ELSE d[i]]
    ELSE Append(d, <<k, v>>)

\* as DictMerge, the items of a kept on a key collision
RECURSIVE DictMerge_FirstWins(_, _)
DictMerge_FirstWins(a, b) ==
    IF b = <<>> THEN a
    ELSE DictMerge_FirstWins(
             IF b[1][1] \in DictKeys(a) THEN a ELSE Append(a, b[1]), Tail(b))

\* {**a, **b}
RECURSIVE DictMerge(_, _)
DictMerge(a, b) ==
    IF b = <<>> THEN a
    ELSE DictMerge(DictSet(a, b[1][1], b[1][2]), Tail(b))

\* uuid4().hex of the n-th draw; draws are pairwise distinct
Uuid4Hex(n) == ToString(n)

\* ----------------------------------------------------------- configuration
\* the image of the module's examples, shortened: <host>/<project>/<repo>/<job>
ExampleImage == <<"gcr.io", "/", "proj", "/", "repo", "/", "job">>

Min(a, b) == IF a < b THEN a ELSE b

Images == { SubSeq(ExampleImage, 1, n) : n \in 0..Min(MaxImageLen, Len(ExampleImage)) }

ExplicitAccounts == { NoneStr, Some(<<>>), Some(<<"sa@explicit">>) }
CredentialAccounts == { NoneStr, Some(<<"sa@credentials">>) }

Project == "proj"
Region == "us-east1"

\* dicts of at most MaxEnvLen items over EnvNames, every value being v
EnvNames == { "KEY", "OTHER" }
RECURSIVE DictsOf(_, _)
DictsOf(n, v) ==
    IF n = 0 THEN { <<>> }
    ELSE LET shorter == DictsOf(n - 1, v)
         IN  shorter \cup { Append(d, <<k, v>>) : d \in shorter, k \in EnvNames }
Dicts(v) ==
    { d \in DictsOf(MaxEnvLen, v) : Cardinality(DictKeys(d)) = Len(d) }

\* what Infrastructure._base_environment() returns, and the env field
BaseEnvironments == Dicts("base")
Environments == Dicts("override")

ConfigsOver(base_environments, environments) ==
    [ image : Images,
      env : environments,
      base_environment : base_environments,
      service_account : ExplicitAccounts,
      credentials_email : CredentialAccounts,
      maximum_run_time : 0..MaxRunTime,
      job_watch_poll_interval : 1..MaxPollInterval,
      task_status : BOOLEAN ]

\* blocks with the default env ({}) where the base environment is empty
Configs == ConfigsOver({ <<>> }, { <<>> })

\* blocks over every environment, for the operations that build the job spec
BuildConfigs ==
    { c \in ConfigsOver(BaseEnvironments, Environments) :
          c.maximum_run_time = 0 /\ c.job_watch_poll_interval = 1 }

\* ------------------------------------------------------------- job states
JOB_STATE_UNSPECIFIED == "JOB_STATE_UNSPECIFIED"
JOB_STATE_QUEUED == "JOB_STATE_QUEUED"
JOB_STATE_RUNNING == "JOB_STATE_RUNNING"
JOB_STATE_SUCCEEDED == "JOB_STATE_SUCCEEDED"
JOB_STATE_FAILED == "JOB_STATE_FAILED"
JOB_STATE_CANCELLED == "JOB_STATE_CANCELLED"
JOB_STATE_EXPIRED == "JOB_STATE_EXPIRED"

until_states ==
    { JOB_STATE_SUCCEEDED, JOB_STATE_FAILED, JOB_STATE_CANCELLED, JOB_STATE_EXPIRED }

JobStates == { JOB_STATE_UNSPECIFIED, JOB_STATE_QUEUED, JOB_STATE_RUNNING } \cup until_states

\* ---------------------------------------------------------- pure functions
\* VertexAICustomTrainingJob.job_name with the n-th uuid4 draw:
\* image.split("/")[2], IndexError turned into ValueError
job_name(image, n) ==
    LET segs == Split(image, "/")
    IN  IF 3 \in DOMAIN segs
        THEN [raised |-> FALSE, value |-> segs[3] \o <<"-", Uuid4Hex(n)>>]
        ELSE [raised |-> TRUE, value |-> <<>>]

\* [{"name": name, "value": value} for name, value in d.items()]
EnvList(d) == [i \in 1..Len(d) |-> [name |-> d[i][1], value |-> d[i][2]]]

\* as _build_job_spec, the credentials' account taking precedence
build_job_spec_CredentialsFirst(c) ==
    LET service_account == PyOr(c.credentials_email, c.service_account)
        env_list == EnvList(DictMerge(c.base_environment, c.env))
    IN  IF ~service_account.some
        THEN [raised |-> TRUE, image_uri |-> <<>>, env |-> <<>>,
              service_account |-> <<>>, timeout |-> 0]
        ELSE [raised |-> FALSE, image_uri |-> c.image, env |-> env_list,
              service_account |-> service_account.val,
              timeout |-> c.maximum_run_time]

\* VertexAICustomTrainingJob._build_job_spec: container spec, resolved
\* service account (ValueError when it is None), scheduling timeout
_build_job_spec(c) ==
    LET service_account == PyOr(c.service_account, c.credentials_email)
        env_list == EnvList(DictMerge(c.base_environment, c.env))
    IN  IF ~service_account.some
        THEN [raised |-> TRUE, image_uri |-> <<>>, env |-> <<>>,
              service_account |-> <<>>, timeout |-> 0]
        ELSE [raised |-> FALSE, image_uri |-> c.image, env |-> env_list,
              service_account |-> service_account.val,
              timeout |-> c.maximum_run_time]

\* VertexAICustomTrainingJob._log_prefix
_log_prefix == <<"VertexAICustomTrainingJob">>

\* parent resource of the create call, and the full job name the service assigns
resource_name == <<"projects", "/", Project, "/", "locations", "/", Region>>
FullJobName(id) == resource_name \o <<"/", "customJobs", "/", ToString(id)>>

\* ---------------------------------------------------------------- outcomes
Pending == [kind |-> "pending", exc |-> "", site |-> "", message |-> <<>>,
            identifier |-> <<>>, status_code |-> -1]
Raised(exc, site, message) ==
    [kind |-> "raised", exc |-> exc, site |-> site, message |-> message,
     identifier |-> <<>>, status_code |-> -1]
Returned(identifier, status_code) ==
    [kind |-> "returned", exc |-> "", site |-> "", message |-> <<>>,
     identifier |-> identifier, status_code |-> status_code]

\* preview: nothing returned yet, a ValueError raised, the rendered job
NoPreview == [kind |-> "pending", site |-> "", text |-> <<>>]
PreviewRaised(site) == [kind |-> "raised", site |-> site, text |-> <<>>]
PreviewReturned(text) == [kind |-> "returned", site |-> "", text |-> text]

\* CustomJob(display_name=..., job_spec=...) and its str(): the fields in
\* order, each environment entry as name and value
CustomJob(display_name, spec) == [display_name |-> display_name, job_spec |-> spec]

RECURSIVE StrEnv(_)
StrEnv(env_list) ==
    IF env_list = <<>> THEN <<>>
    ELSE <<"name", ":", env_list[1].name, "value", ":", env_list[1].value>>
         \o StrEnv(Tail(env_list))

str(custom_job) ==
    <<"display_name", ":">> \o custom_job.display_name
    \o <<"image_uri", ":">> \o custom_job.job_spec.image_uri
    \o <<"env", ":">> \o StrEnv(custom_job.job_spec.env)
    \o <<"service_account", ":">> \o custom_job.job_spec.service_account

\* error messages a terminal job may carry, and failures of the remote calls
ErrorMessages == { <<>>, <<"container", "exited", "1">> }
NOT_FOUND_PHRASE == <<"does", "not", "exist">>
CancelFailures ==
    { <<"404", "The", "CustomJob", "does", "not", "exist">>,
      <<"503", "service", "unavailable">>,
      <<"403", "caller", "does", "not", "have", "permission">> }
CreateFailure == <<"429", "quota", "exceeded">>
PollFailure == <<"404", "job", "not", "found">>

NoJobSpec == [raised |-> FALSE, image_uri |-> <<>>, env |-> <<>>,
              service_account |-> <<>>, timeout |-> 0]

NoJobRun == [name |-> <<>>, display_name |-> <<>>, state |-> JOB_STATE_UNSPECIFIED,
             error |-> <<>>]

\* ------------------------------------------------------------------- state
VARIABLES
    cfg,              \* the block's fields, fixed at construction
    now,              \* time.time()
    uuid_draws,       \* number of uuid4() draws made so far
    pc,               \* position of run()
    job_spec,         \* run: job_spec
    job_run,          \* run: job_run, the CustomJob returned by the create call
    submitted_name,   \* display_name of the CustomJob handed to the create call
    state,            \* _watch_job_run: state
    last_state,       \* _watch_job_run: last_state
    t0,               \* _watch_job_run: t0
    elapsed_time,     \* _watch_job_run: elapsed_time
    watched,          \* _watch_job_run: job_run, the last snapshot polled
    final_job_run,    \* run: final_job_run
    run_outcome,      \* what run() returned or raised
    started_calls,    \* arguments of task_status.started(...), in order
    log_transitions,  \* number of "has new job state is now" records logged
    sessions,         \* per entry point: client sessions entered and exited
    kill_pc,          \* position of kill()
    identifier,       \* kill: identifier
    grace_seconds,    \* kill: grace_seconds, while kill() is in progress
    cancel_reply,     \* what cancel_custom_job answered
    kill_outcome,     \* what kill() returned or raised
    remote_job,       \* the job as the service holds it
    create_calls,     \* create_custom_job calls received by the service
    get_calls,        \* get_custom_job calls received by the service
    cancel_requests,  \* names of the cancel_custom_job requests received, in order
    preview_calls,    \* calls of preview() made so far
    preview_outcome,  \* what the last preview() returned or raised
    observed_changes, \* polls whose state differed from the one observed before
    prev_observed     \* state observed before the current poll

config_vars == <<cfg>>
run_vars == <<pc, job_spec, job_run, submitted_name, state, last_state, t0,
              elapsed_time, watched, final_job_run, run_outcome, started_calls,
              log_transitions>>
kill_vars == <<kill_pc, identifier, grace_seconds, cancel_reply, kill_outcome>>
preview_vars == <<preview_calls, preview_outcome>>
remote_vars == <<remote_job, create_calls, get_calls, cancel_requests>>
ghost_vars == <<observed_changes, prev_observed>>
vars == <<cfg, now, uuid_draws, run_vars, sessions, kill_vars, remote_vars, ghost_vars,
         preview_vars>>

InitOver(configs) ==
    /\ cfg \in configs
    /\ now = 0
    /\ uuid_draws = 0
    /\ pc = "build_job_spec"
    /\ job_spec = NoJobSpec
    /\ job_run = NoJobRun
    /\ submitted_name = <<>>
    /\ state = JOB_STATE_UNSPECIFIED
    /\ last_state = JOB_STATE_UNSPECIFIED
    /\ t0 = 0
    /\ elapsed_time = 0
    /\ watched = NoJobRun
    /\ final_job_run = NoJobRun
    /\ run_outcome = Pending
    /\ started_calls = <<>>
    /\ log_transitions = 0
    /\ sessions = [p \in {"run", "kill"} |-> [entered |-> 0, exited |-> 0]]
    /\ kill_pc = "idle"
    /\ identifier = <<>>
    /\ grace_seconds = 0
    /\ cancel_reply = <<>>
    /\ kill_outcome = Pending
    /\ remote_job = NoJobRun
    /\ create_calls = 0
    /\ get_calls = 0
    /\ cancel_requests = <<>>
    /\ observed_changes = 0
    /\ prev_observed = JOB_STATE_UNSPECIFIED
    /\ preview_calls = 0
    /\ preview_outcome = NoPreview

Init == InitOver(Configs)

\* with gcp_credentials.get_job_service_client(...) as job_service_client:
Enter(p) == [sessions EXCEPT ![p].entered = @ + 1]
\* as Exit, the session left open
Exit_Leaked(p) == sessions

\* leaving the with block, normally or by an exception
Exit(p) == [sessions EXCEPT ![p].exited = @ + 1]

\* ----------------------------------------------------------------- preview
\* as Preview, the rendered job also submitted
Preview_Submits ==
    /\ preview_calls < MaxPreviews
    /\ preview_calls' = preview_calls + 1
    /\ create_calls' = create_calls + 1
    /\ LET built == _build_job_spec(cfg)
           name == job_name(cfg.image, uuid_draws + 1)
       IN  IF built.raised
           THEN /\ preview_outcome' = PreviewRaised("_build_job_spec")
                /\ UNCHANGED uuid_draws
           ELSE IF name.raised
           THEN /\ preview_outcome' = PreviewRaised("job_name")
                /\ UNCHANGED uuid_draws
           ELSE /\ preview_outcome' = PreviewReturned(str(CustomJob(name.value, built)))
                /\ uuid_draws' = uuid_draws + 1
    /\ UNCHANGED <<cfg, now, run_vars, sessions, kill_vars, remote_job, get_calls,
                   cancel_requests, ghost_vars>>

\* preview, lines 211-213: the spec is built, a job name drawn, the job
\* rendered; either of the first two may raise ValueError
Preview ==
    /\ preview_calls < MaxPreviews
    /\ preview_calls' = preview_calls + 1
    /\ LET built == _build_job_spec(cfg)
           name == job_name(cfg.image, uuid_draws + 1)
       IN  IF built.raised
           THEN /\ preview_outcome' = PreviewRaised("_build_job_spec")
                /\ UNCHANGED uuid_draws
           ELSE IF name.raised
           THEN /\ preview_outcome' = PreviewRaised("job_name")
                /\ UNCHANGED uuid_draws
           ELSE /\ preview_outcome' = PreviewReturned(str(CustomJob(name.value, built)))
                /\ uuid_draws' = uuid_draws + 1
    /\ UNCHANGED <<cfg, now, run_vars, sessions, kill_vars, remote_vars, ghost_vars>>

\* --------------------------------------------------------------------- run
\* run, line 363: job_spec = self._build_job_spec()
RunBuildJobSpec ==
    /\ pc = "build_job_spec"
    /\ LET built == _build_job_spec(cfg)
       IN  IF built.raised
           THEN /\ run_outcome' = Raised("ValueError", "_build_job_spec", <<>>)
                /\ pc' = "done"
                /\ UNCHANGED job_spec
           ELSE /\ job_spec' = built
                /\ pc' = "get_job_service_client"
                /\ UNCHANGED run_outcome
    /\ UNCHANGED <<cfg, preview_vars, now, uuid_draws, job_run, submitted_name, state, last_state,
                   t0, elapsed_time, watched, final_job_run, started_calls,
                   log_transitions, sessions, kill_vars, remote_vars, ghost_vars>>

\* run, lines 364-366: the with statement is entered
RunGetJobServiceClient ==
    /\ pc = "get_job_service_client"
    /\ sessions' = Enter("run")
    /\ pc' = "create_and_begin_job"
    /\ UNCHANGED <<cfg, preview_vars, now, uuid_draws, job_spec, job_run, submitted_name, state,
                   last_state, t0, elapsed_time, watched, final_job_run, run_outcome,
                   started_calls, log_transitions, kill_vars, remote_vars, ghost_vars>>

\* as RunCreateAndBeginJob, a failed create call tried a second time
RunCreateAndBeginJob_RetriesOnce ==
    /\ pc = "create_and_begin_job"
    /\ LET display == job_name(cfg.image, uuid_draws + 1)
       IN  IF display.raised
           THEN /\ run_outcome' = Raised("ValueError", "job_name", <<>>)
                /\ sessions' = Exit("run")
                /\ pc' = "done"
                /\ UNCHANGED <<uuid_draws, job_run, submitted_name, remote_vars>>
           ELSE /\ submitted_name' = display.value
                /\ create_calls' = create_calls + 1
                /\ \/ /\ IF create_calls = 0
                         THEN /\ pc' = "create_and_begin_job"
                              /\ UNCHANGED <<run_outcome, sessions>>
                         ELSE /\ run_outcome' = Raised("GoogleAPICallError",
                                                       "create_custom_job", CreateFailure)
                              /\ sessions' = Exit("run")
                              /\ pc' = "done"
                      /\ uuid_draws' = uuid_draws + 2
                      /\ UNCHANGED <<job_run, remote_job>>
                   \/ \E s \in JobStates, e \in ErrorMessages :
                      /\ s \notin until_states => e = <<>>
                      /\ remote_job' = [name |-> FullJobName(create_calls'),
                                        display_name |-> display.value,
                                        state |-> s, error |-> e]
                      /\ job_run' = remote_job'
                      /\ uuid_draws' = uuid_draws + 3
                      /\ pc' = "started"
                      /\ UNCHANGED <<run_outcome, sessions>>
                /\ UNCHANGED <<get_calls, cancel_requests>>
    /\ UNCHANGED <<cfg, preview_vars, now, job_spec, state, last_state, t0, elapsed_time, watched,
                   final_job_run, started_calls, log_transitions, kill_vars,
                   ghost_vars>>

\* run, line 367: _create_and_begin_job.  self.job_name is read for the
\* CustomJob (275), for the log record before the call (279) and for the one
\* after it (293); the create call either raises or stores a job whose first
\* state and error are the service's choice.
RunCreateAndBeginJob ==
    /\ pc = "create_and_begin_job"
    /\ LET display == job_name(cfg.image, uuid_draws + 1)
       IN  IF display.raised
           THEN /\ run_outcome' = Raised("ValueError", "job_name", <<>>)
                /\ sessions' = Exit("run")
                /\ pc' = "done"
                /\ UNCHANGED <<uuid_draws, job_run, submitted_name, remote_vars>>
           ELSE /\ submitted_name' = display.value
                /\ create_calls' = create_calls + 1
                /\ \/ /\ run_outcome' = Raised("GoogleAPICallError", "create_custom_job",
                                               CreateFailure)
                      /\ sessions' = Exit("run")
                      /\ pc' = "done"
                      /\ uuid_draws' = uuid_draws + 2
                      /\ UNCHANGED <<job_run, remote_job>>
                   \/ \E s \in JobStates, e \in ErrorMessages :
                      /\ s \notin until_states => e = <<>>
                      /\ remote_job' = [name |-> FullJobName(create_calls'),
                                        display_name |-> display.value,
                                        state |-> s, error |-> e]
                      /\ job_run' = remote_job'
                      /\ uuid_draws' = uuid_draws + 3
                      /\ pc' = "started"
                      /\ UNCHANGED <<run_outcome, sessions>>
                /\ UNCHANGED <<get_calls, cancel_requests>>
    /\ UNCHANGED <<cfg, preview_vars, now, job_spec, state, last_state, t0, elapsed_time, watched,
                   final_job_run, started_calls, log_transitions, kill_vars,
                   ghost_vars>>

\* as RunStarted, the sink signalled whether or not it was given, and twice
RunStarted_SignalsTwice ==
    /\ pc = "started"
    /\ started_calls' =
           started_calls \o << job_name(cfg.image, uuid_draws + 1).value,
                               job_name(cfg.image, uuid_draws + 2).value >>
    /\ uuid_draws' = uuid_draws + 2
    /\ pc' = "watch_job_run"
    /\ UNCHANGED <<cfg, preview_vars, now, job_spec, job_run, submitted_name, state, last_state, t0,
                   elapsed_time, watched, final_job_run, run_outcome, log_transitions,
                   sessions, kill_vars, remote_vars, ghost_vars>>

\* run, lines 369-370: task_status.started(self.job_name)
RunStarted ==
    /\ pc = "started"
    /\ IF cfg.task_status
       THEN /\ started_calls' =
                   Append(started_calls, job_name(cfg.image, uuid_draws + 1).value)
            /\ uuid_draws' = uuid_draws + 1
       ELSE UNCHANGED <<started_calls, uuid_draws>>
    /\ pc' = "watch_job_run"
    /\ UNCHANGED <<cfg, preview_vars, now, job_spec, job_run, submitted_name, state, last_state, t0,
                   elapsed_time, watched, final_job_run, run_outcome, log_transitions,
                   sessions, kill_vars, remote_vars, ghost_vars>>

\* as WatchEnter, current_state ignored
WatchEnter_IgnoresCurrentState ==
    /\ pc = "watch_job_run"
    /\ state' = JOB_STATE_UNSPECIFIED
    /\ last_state' = JOB_STATE_UNSPECIFIED
    /\ t0' = now
    /\ prev_observed' = job_run.state
    /\ pc' = "while"
    /\ UNCHANGED <<cfg, preview_vars, now, uuid_draws, job_spec, job_run, submitted_name,
                   elapsed_time, watched, final_job_run, run_outcome, started_calls,
                   log_transitions, sessions, kill_vars, remote_vars,
                   observed_changes>>

\* as WatchEnter, the loop variable starting from the state at submission
WatchEnter_StartsFromCurrentState ==
    /\ pc = "watch_job_run"
    /\ state' = job_run.state
    /\ last_state' = job_run.state
    /\ t0' = now
    /\ prev_observed' = job_run.state
    /\ pc' = "while"
    /\ UNCHANGED <<cfg, preview_vars, now, uuid_draws, job_spec, job_run, submitted_name,
                   elapsed_time, watched, final_job_run, run_outcome, started_calls,
                   log_transitions, sessions, kill_vars, remote_vars,
                   observed_changes>>

\* _watch_job_run, lines 310-312, called with current_state = job_run.state
WatchEnter ==
    /\ pc = "watch_job_run"
    /\ state' = JOB_STATE_UNSPECIFIED
    /\ last_state' = job_run.state
    /\ t0' = now
    /\ prev_observed' = job_run.state
    /\ pc' = "while"
    /\ UNCHANGED <<cfg, preview_vars, now, uuid_draws, job_spec, job_run, submitted_name,
                   elapsed_time, watched, final_job_run, run_outcome, started_calls,
                   log_transitions, sessions, kill_vars, remote_vars,
                   observed_changes>>

\* _watch_job_run, line 314: while state not in until_states; on exit the
\* snapshot is returned (344) and run leaves the with block (383)
WatchWhile ==
    /\ pc = "while"
    /\ IF state \notin until_states
       THEN /\ pc' = "get_custom_job"
            /\ UNCHANGED <<final_job_run, sessions>>
       ELSE /\ final_job_run' = watched
            /\ sessions' = Exit("run")
            /\ pc' = "interpret"
    /\ UNCHANGED <<cfg, preview_vars, now, uuid_draws, job_spec, job_run, submitted_name, state,
                   last_state, t0, elapsed_time, watched, run_outcome, started_calls,
                   log_transitions, kill_vars, remote_vars, ghost_vars>>

\* the service may move a job that is not finished to any state; a finished
\* job stays as it is
Evolves(job, s, e) ==
    IF job.state \in until_states
    THEN s = job.state /\ e = job.error
    ELSE s \notin until_states => e = <<>>

\* _watch_job_run, lines 315-334: one get_custom_job call, which raises or
\* returns the job's snapshot, and the comparison with last_state
WatchGetCustomJob ==
    /\ pc = "get_custom_job"
    /\ get_calls' = get_calls + 1
    /\ \/ /\ run_outcome' = Raised("GoogleAPICallError", "get_custom_job", PollFailure)
          /\ sessions' = Exit("run")
          /\ pc' = "done"
          /\ UNCHANGED <<remote_job, watched, state, last_state, log_transitions,
                         uuid_draws, ghost_vars>>
       \/ \E s \in JobStates, e \in ErrorMessages :
          /\ Evolves(remote_job, s, e)
          /\ remote_job' = [remote_job EXCEPT !.state = s, !.error = e]
          /\ watched' = remote_job'
          /\ state' = s
          /\ IF s # last_state
             THEN /\ log_transitions' = log_transitions + 1
                  /\ uuid_draws' = uuid_draws + 1
                  /\ last_state' = s
             ELSE UNCHANGED <<log_transitions, uuid_draws, last_state>>
          /\ observed_changes' =
                 IF s # prev_observed THEN observed_changes + 1 ELSE observed_changes
          /\ prev_observed' = s
          /\ pc' = "elapsed"
          /\ UNCHANGED <<run_outcome, sessions>>
    /\ UNCHANGED <<cfg, preview_vars, now, job_spec, job_run, submitted_name, t0, elapsed_time,
                   final_job_run, started_calls, kill_vars, create_calls,
                   cancel_requests>>

\* as TimedOut, the deadline itself counted as exceeded
TimedOut_AtDeadline(elapsed, timeout) == elapsed >= timeout

\* _watch_job_run, line 337: timeout is not None and elapsed_time > timeout
TimedOut(elapsed, timeout) == elapsed > timeout

\* as WatchElapsed, the job cancelled when the deadline has passed
WatchElapsed_CancelsOnTimeout ==
    /\ pc = "elapsed"
    /\ elapsed_time' = now - t0
    /\ IF TimedOut(elapsed_time', cfg.maximum_run_time)
       THEN /\ run_outcome' = Raised("RuntimeError", "_watch_job_run",
                                     <<"Timed", "out", "after", ToString(elapsed_time')>>)
            /\ cancel_requests' = Append(cancel_requests, job_run.name)
            /\ sessions' = Exit("run")
            /\ pc' = "done"
       ELSE /\ pc' = "sleep"
            /\ UNCHANGED <<run_outcome, sessions, cancel_requests>>
    /\ UNCHANGED <<cfg, preview_vars, now, uuid_draws, job_spec, job_run, submitted_name,
                   state, last_state, t0, watched, final_job_run, started_calls,
                   log_transitions, kill_vars, remote_job, create_calls, get_calls,
                   ghost_vars>>

\* _watch_job_run, lines 336-341, called with timeout = maximum_run_time
WatchElapsed ==
    /\ pc = "elapsed"
    /\ elapsed_time' = now - t0
    /\ IF TimedOut(elapsed_time', cfg.maximum_run_time)
       THEN /\ run_outcome' = Raised("RuntimeError", "_watch_job_run",
                                     <<"Timed", "out", "after", ToString(elapsed_time')>>)
            /\ sessions' = Exit("run")
            /\ pc' = "done"
       ELSE /\ pc' = "sleep"
            /\ UNCHANGED <<run_outcome, sessions>>
    /\ UNCHANGED <<cfg, preview_vars, now, uuid_draws, job_spec, job_run, submitted_name, state,
                   last_state, t0, watched, final_job_run, started_calls,
                   log_transitions, kill_vars, remote_vars, ghost_vars>>

\* _watch_job_run, line 342: time.sleep(self.job_watch_poll_interval)
WatchSleep ==
    /\ pc = "sleep"
    /\ now' = now + cfg.job_watch_poll_interval
    /\ pc' = "while"
    /\ UNCHANGED <<cfg, preview_vars, uuid_draws, job_spec, job_run, submitted_name, state,
                   last_state, t0, elapsed_time, watched, final_job_run, run_outcome,
                   started_calls, log_transitions, sessions, kill_vars, remote_vars,
                   ghost_vars>>

\* as Interpret, raising for every job that did not succeed
Interpret_RaisesUnlessSucceeded(final) ==
    LET error_msg == final.error
    IN  IF final.state # JOB_STATE_SUCCEEDED
        THEN Raised("RuntimeError", "run", _log_prefix \o <<":">> \o error_msg)
        ELSE Returned(final.display_name, 0)

\* run, lines 385-392: RuntimeError for a non-empty error message, else the
\* result with status_code 0 for JOB_STATE_SUCCEEDED and 1 otherwise
Interpret(final) ==
    LET error_msg == final.error
        status_code == IF final.state = JOB_STATE_SUCCEEDED THEN 0 ELSE 1
    IN  IF error_msg # <<>>
        THEN Raised("RuntimeError", "run", _log_prefix \o <<":">> \o error_msg)
        ELSE Returned(final.display_name, status_code)

\* run, lines 385-392: the final snapshot becomes an error or a result
RunInterpret ==
    /\ pc = "interpret"
    /\ run_outcome' = Interpret(final_job_run)
    /\ pc' = "done"
    /\ UNCHANGED <<cfg, preview_vars, now, uuid_draws, job_spec, job_run, submitted_name, state,
                   last_state, t0, elapsed_time, watched, final_job_run, started_calls,
                   log_transitions, sessions, kill_vars, remote_vars, ghost_vars>>

\* -------------------------------------------------------------------- kill
\* identifiers a caller may pass to kill
Identifiers == { FullJobName(1), <<"no", "such", "job">> }

\* kill, lines 409-411: the with statement is entered
KillGetJobServiceClient ==
    /\ kill_pc = "idle"
    /\ \E id \in Identifiers : identifier' = id
    /\ \E g \in 0..MaxGraceSeconds : grace_seconds' = g
    /\ sessions' = Enter("kill")
    /\ kill_pc' = "kill_job"
    /\ UNCHANGED <<cfg, preview_vars, now, uuid_draws, run_vars, cancel_reply, kill_outcome,
                   remote_vars, ghost_vars>>

\* as kill_job_except, every failure taken for a missing job
kill_job_except_AlwaysNotFound(exc, full_job_name) ==
    Raised("InfrastructureNotFound", "_kill_job", full_job_name)

\* _kill_job, lines 432-438: the except clause
kill_job_except(exc, full_job_name) ==
    IF Contains(exc, NOT_FOUND_PHRASE)
    THEN Raised("InfrastructureNotFound", "_kill_job", full_job_name)
    ELSE Raised("GoogleAPICallError", "cancel_custom_job", exc)

\* _kill_job, line 427: CancelCustomJobRequest(name=full_job_name)
CancelCustomJobRequest(full_job_name) == full_job_name

\* as KillJob, returning only after the grace period has passed
KillJob_WaitsGracePeriod ==
    /\ kill_pc = "kill_job"
    /\ cancel_requests' = Append(cancel_requests, CancelCustomJobRequest(identifier))
    /\ now' = now + grace_seconds
    /\ grace_seconds' = 0
    /\ \/ /\ remote_job.name = identifier
          /\ cancel_reply' = <<"ok">>
          /\ kill_outcome' = Returned(<<>>, 0)
       \/ \E exc \in CancelFailures :
          /\ cancel_reply' = exc
          /\ kill_outcome' = kill_job_except(exc, identifier)
    /\ sessions' = Exit("kill")
    /\ kill_pc' = "done"
    /\ UNCHANGED <<cfg, preview_vars, uuid_draws, run_vars, identifier, remote_job,
                   create_calls, get_calls, ghost_vars>>

\* kill, lines 412-417, and _kill_job, lines 427-438: one cancel request; the
\* service accepts it only for a job it holds, and otherwise raises
KillJob ==
    /\ kill_pc = "kill_job"
    /\ cancel_requests' = Append(cancel_requests, CancelCustomJobRequest(identifier))
    /\ grace_seconds' = 0
    /\ \/ /\ remote_job.name = identifier
          /\ cancel_reply' = <<"ok">>
          /\ kill_outcome' = Returned(<<>>, 0)
       \/ \E exc \in CancelFailures :
          /\ cancel_reply' = exc
          /\ kill_outcome' = kill_job_except(exc, identifier)
    /\ sessions' = Exit("kill")
    /\ kill_pc' = "done"
    /\ UNCHANGED <<cfg, preview_vars, now, uuid_draws, run_vars, identifier, remote_job,
                   create_calls, get_calls, ghost_vars>>

\* ----------------------------------------------------------- specification
RunNext ==
    \/ RunBuildJobSpec
    \/ RunGetJobServiceClient
    \/ RunCreateAndBeginJob
    \/ RunStarted
    \/ WatchEnter
    \/ WatchWhile
    \/ WatchGetCustomJob
    \/ WatchElapsed
    \/ WatchSleep
    \/ RunInterpret

KillNext ==
    \/ KillGetJobServiceClient
    \/ KillJob

Next == RunNext \/ KillNext

Spec == Init /\ [][Next]_vars

\* The watch under fairness: the event loop keeps running run() until it
\* returns or raises.  The service identity plays no part once the spec is
\* built, so one resolvable identity is explored.
InitWatch ==
    /\ Init
    /\ cfg.service_account = Some(<<"sa@explicit">>)
    /\ cfg.credentials_email = NoneStr

FairSpec == InitWatch /\ [][Next]_vars /\ WF_vars(RunNext)

\* preview() called any number of times before, during and after a run(),
\* over the configurations that differ in what the built spec holds
InitBuild == InitOver(BuildConfigs)
BuildNext == Preview \/ RunNext
BuildSpec == InitBuild /\ [][BuildNext]_vars

\* run() and kill() as coroutines of one event loop.  A coroutine gives up
\* the loop only at an await that suspends it: run() at the two calls handed
\* to a worker thread (create_custom_job, 286-290; get_custom_job, 315-318),
\* kill() at the one that runs _kill_job (412-416).  time.sleep (342) is an
\* ordinary call: run() keeps the loop for its whole duration.
AtAwait == pc \in {"create_and_begin_job", "get_custom_job"}
LoopFree == pc \in {"build_job_spec", "done"} \/ AtAwait
SameLoopKill == LoopFree /\ KillNext
SameLoopNext == RunNext \/ SameLoopKill
SameLoopSpec == Init /\ [][SameLoopNext]_vars

\* ------------------------------------------------------------------ claims
RunRaisedAt(site) == run_outcome.kind = "raised" /\ run_outcome.site = site

\* the spec's error names, by the place the code raises them
ConfigurationError == RunRaisedAt("_build_job_spec") \/ RunRaisedAt("job_name")
SubmissionError == RunRaisedAt("create_custom_job")
WatchTimeoutError == RunRaisedAt("_watch_job_run") /\ run_outcome.exc = "RuntimeError"
RemoteExecutionError == RunRaisedAt("run") /\ run_outcome.exc = "RuntimeError"
PollError == RunRaisedAt("get_custom_job")

\* C1: a failing get-status call never ends run(): the watch phase ends
\* abnormally only through the deadline
C1_PollFailureSwallowed == ~PollError

\* C2: the watch logs one transition record for each poll whose state differs
\* from the state observed before it (the state returned by the create call
\* for the first poll), and none for the other polls
C2_OneTransitionPerChange == log_transitions = observed_changes

\* four polls after an initial QUEUED with two changes, ending in status 0
C2_Witness ==
    /\ job_run.state = JOB_STATE_QUEUED
    /\ get_calls = 4
    /\ log_transitions = 2
    /\ run_outcome.kind = "returned"
    /\ run_outcome.status_code = 0

C4_FinalSnapshotInterpreted ==
    (pc = "done" /\ final_job_run # NoJobRun) =>
        IF final_job_run.error # <<>>
        THEN /\ RemoteExecutionError
             /\ Contains(run_outcome.message, final_job_run.error)
        ELSE /\ run_outcome.kind = "returned"
             /\ final_job_run.state = JOB_STATE_SUCCEEDED => run_outcome.status_code = 0
             /\ final_job_run.state \in
                    {JOB_STATE_FAILED, JOB_STATE_CANCELLED, JOB_STATE_EXPIRED}
                        => run_outcome.status_code = 1

\* FAILED without a message is reported, not raised
C4_Witness ==
    /\ pc = "done"
    /\ final_job_run.state = JOB_STATE_FAILED
    /\ final_job_run.error = <<>>
    /\ run_outcome.kind = "returned"
    /\ run_outcome.status_code = 1

\* the cancel call's failure says "does not exist"
ReportsDoesNotExist(reply) ==
    \E i \in 1..Len(reply) :
        /\ i + 2 <= Len(reply)
        /\ reply[i] = "does" /\ reply[i + 1] = "not" /\ reply[i + 2] = "exist"

\* C5: kill raises InfrastructureNotFound when the cancel call fails saying
\* the job does not exist, re-raises any other failure of the cancel call
\* unchanged, and raises nothing when the cancel call succeeds
C5_KillOutcome ==
    kill_pc = "done" =>
        IF cancel_reply = <<"ok">>
        THEN kill_outcome.kind = "returned"
        ELSE IF ReportsDoesNotExist(cancel_reply)
        THEN kill_outcome.kind = "raised" /\ kill_outcome.exc = "InfrastructureNotFound"
        ELSE /\ kill_outcome.kind = "raised"
             /\ kill_outcome.exc = "GoogleAPICallError"
             /\ kill_outcome.message = cancel_reply

\* a failure that nearly says it: "... does not have permission"
C5_Witness ==
    /\ kill_pc = "done"
    /\ cancel_reply = <<"403", "caller", "does", "not", "have", "permission">>
    /\ kill_outcome.exc = "GoogleAPICallError"

FewerThanThreeSegments(image) == Len(Split(image, "/")) < 3

\* C6: for an image of fewer than 3 segments, spec building and name
\* generation both fail and run() opens no session, creates nothing and
\* polls nothing
C6_BadImageFailsBeforeAnyCall ==
    FewerThanThreeSegments(cfg.image) =>
        /\ job_name(cfg.image, 1).raised
        /\ job_spec = NoJobSpec
        /\ sessions["run"].entered = 0
        /\ create_calls = 0
        /\ get_calls = 0

Present(o) == o.some /\ Len(o.val) > 0

\* C7: the built spec carries the configured service account when there is
\* one, otherwise the credentials' account; with neither, run() raises
\* ValueError from spec building, having opened no session and made no call
C7_ServiceIdentity ==
    /\ (pc # "build_job_spec" /\ Present(cfg.service_account)) =>
           job_spec.service_account = cfg.service_account.val
    /\ (pc # "build_job_spec" /\ ~Present(cfg.service_account)
            /\ Present(cfg.credentials_email)) =>
           job_spec.service_account = cfg.credentials_email.val
    /\ (~Present(cfg.service_account) /\ ~Present(cfg.credentials_email)) =>
           /\ pc \in {"build_job_spec", "done"}
           /\ pc = "done" => RunRaisedAt("_build_job_spec")
           /\ sessions["run"].entered = 0
           /\ create_calls = 0
           /\ get_calls = 0

\* both accounts given: the configured one is in the spec
C7_Witness ==
    /\ pc = "get_job_service_client"
    /\ Present(cfg.service_account)
    /\ Present(cfg.credentials_email)
    /\ job_spec.service_account = cfg.service_account.val

\* neither given: run() has failed at spec building
C7_WitnessMissing ==
    /\ pc = "done"
    /\ ~Present(cfg.service_account)
    /\ ~Present(cfg.credentials_email)
    /\ RunRaisedAt("_build_job_spec")

\* C8: every session run() or kill() opens is closed once, and none is open
\* after the call has returned or raised
C8_SessionsPaired ==
    /\ \A p \in {"run", "kill"} :
           /\ sessions[p].entered <= 1
           /\ sessions[p].exited <= sessions[p].entered
    /\ pc \in {"interpret", "done"} => sessions["run"].exited = sessions["run"].entered
    /\ kill_pc = "done" => sessions["kill"].exited = sessions["kill"].entered
    /\ pc \in {"started", "watch_job_run", "while", "get_custom_job", "elapsed", "sleep"}
           => sessions["run"].entered = 1

\* the watch raised its timeout and the session opened for it is closed
C8_Witness ==
    /\ WatchTimeoutError
    /\ sessions["run"] = [entered |-> 1, exited |-> 1]

\* C9: the name submitted, the name given to the started callback and the
\* identifier of the result are one value
C9_OneDisplayName ==
    /\ started_calls # <<>> => started_calls[1] = submitted_name
    /\ run_outcome.kind = "returned" => run_outcome.identifier = submitted_name

\* C10: the started callback is called at most once, after the create call
\* has succeeded and before the first poll, and never when spec building,
\* name generation or the create call failed
C10_StartedOnceAfterCreate ==
    /\ Len(started_calls) <= 1
    /\ started_calls # <<>> => (cfg.task_status /\ job_run # NoJobRun /\ create_calls = 1)
    /\ (get_calls > 0 /\ cfg.task_status) => Len(started_calls) = 1
    /\ (ConfigurationError \/ SubmissionError) => started_calls = <<>>

\* the callback has been called and no poll has been made yet
C10_Witness ==
    /\ Len(started_calls) = 1
    /\ get_calls = 0
    /\ pc = "watch_job_run"

\* C11: run() makes at most one create call; when that call fails run()
\* raises its error with no second create call and no poll
C11_OneCreateCall ==
    /\ create_calls <= 1
    /\ SubmissionError =>
           /\ pc = "done"
           /\ create_calls = 1
           /\ get_calls = 0
           /\ remote_job = NoJobRun

\* the create call failed and run() has raised
C11_Witness ==
    /\ SubmissionError
    /\ pc = "done"
    /\ create_calls = 1
    /\ run_outcome.message = CreateFailure

\* C12: the step in which the watch raises its timeout sends no cancel
\* request and leaves the job as the service holds it; no step of run()
\* sends a cancel request
C12_TimeoutIsLocal ==
    [][ /\ (pc = "elapsed" /\ pc' = "done") =>
               (remote_job' = remote_job /\ cancel_requests' = cancel_requests)
        /\ pc' # pc => cancel_requests' = cancel_requests ]_vars

\* run() has timed out, nobody asked to cancel, the job is still running
C12_Witness ==
    /\ WatchTimeoutError
    /\ remote_job.state = JOB_STATE_RUNNING
    /\ cancel_requests = <<>>

\* C13: kill() sends exactly one cancel request, in the step that returns,
\* and that step takes no time, polls nothing and leaves the job as the
\* service holds it, whatever grace_seconds it was called with
C13_KillFireAndForget ==
    [][ /\ (kill_pc = "kill_job" /\ kill_pc' = "done") =>
               /\ cancel_requests' = Append(cancel_requests, identifier)
               /\ UNCHANGED <<now, get_calls, remote_job>>
        /\ (kill_pc = "idle" /\ kill_pc' = "kill_job") =>
               UNCHANGED <<now, get_calls, remote_job, cancel_requests>>
        /\ kill_pc' = kill_pc => cancel_requests' = cancel_requests
        /\ Len(cancel_requests') <= 1 ]_vars

\* kill() has returned for a job the service holds and has not cancelled yet
C13_Witness ==
    /\ kill_pc = "done"
    /\ kill_outcome = Returned(<<>>, 0)
    /\ Len(cancel_requests) = 1
    /\ remote_job.name = identifier
    /\ remote_job.state \in {JOB_STATE_QUEUED, JOB_STATE_RUNNING}

\* C14: a call of preview() enters no client session, makes no create call
\* and no poll, and leaves the job the service holds as it is
C14_PreviewIsLocal ==
    [][ preview_calls' # preview_calls => UNCHANGED <<sessions, remote_vars>> ]_vars

\* preview() has returned the rendered job MaxPreviews times and the service
\* was never contacted
C14_Witness ==
    /\ preview_calls = MaxPreviews
    /\ preview_outcome.kind = "returned"
    /\ sessions["run"].entered = 0
    /\ create_calls = 0
    /\ get_calls = 0
    /\ remote_job = NoJobRun

\* the entries of the built environment that carry the name k
EntriesOf(env_list, k) == { i \in DOMAIN env_list : env_list[i].name = k }

\* C15: the environment of the built spec has one entry for every key of the
\* base environment and of the env field and no other; the entry holds the
\* env field's value when the field defines the key, the base value otherwise
C15_EnvironmentMerge ==
    job_spec # NoJobSpec =>
        LET base == cfg.base_environment
            user == cfg.env
        IN  /\ \A i \in DOMAIN job_spec.env :
                   job_spec.env[i].name \in DictKeys(base) \cup DictKeys(user)
            /\ \A k \in DictKeys(base) \cup DictKeys(user) :
                   /\ Cardinality(EntriesOf(job_spec.env, k)) = 1
                   /\ \A i \in EntriesOf(job_spec.env, k) :
                          job_spec.env[i].value =
                              IF k \in DictKeys(user) THEN DictGet(user, k)
                              ELSE DictGet(base, k)

\* KEY is defined by both with different values, OTHER by the base alone
C15_Witness ==
    /\ job_spec # NoJobSpec
    /\ cfg.base_environment = << <<"KEY", "base">>, <<"OTHER", "base">> >>
    /\ cfg.env = << <<"KEY", "override">> >>
    /\ job_spec.env = << [name |-> "KEY", value |-> "override"],
                         [name |-> "OTHER", value |-> "base"] >>

\* _watch_job_run has returned to run(): run() is about to read the snapshot
\* or has turned it into its result or its RuntimeError
WatchReturned ==
    \/ pc = "interpret"
    \/ pc = "done" /\ (run_outcome.kind = "returned" \/ RemoteExecutionError)

\* C16: when the watch returns, its snapshot is the one of the latest poll
\* and is in a terminal state, at least one poll was made, and no poll is
\* made once a poll has returned a terminal state
C16_WatchReturnsLatestTerminal ==
    /\ WatchReturned =>
           /\ get_calls >= 1
           /\ final_job_run = watched
           /\ final_job_run.state = prev_observed
           /\ final_job_run.state \in until_states
    /\ pc = "get_custom_job" => state \notin until_states

\* the job was already finished when submission returned, and the watch
\* returned after its one poll
C16_Witness ==
    /\ WatchReturned
    /\ job_run.state \in until_states
    /\ get_calls = 1
    /\ final_job_run.state = job_run.state

\* C17: the timeout is raised only after a poll that returned a state outside
\* the terminal set; a poll that returned a terminal state ends in the return
\* of its snapshot, however late it was made
C17_TerminalNeverTimesOut ==
    /\ WatchTimeoutError => state \notin until_states
    /\ (pc = "done" /\ state \in until_states) =>
           (WatchReturned /\ final_job_run = watched)

\* C18: the request kill() builds from an identifier run() has handed out,
\* through the started callback or in its result, names the job as the
\* service named it at submission
C18_HandedOutIdentifierCancels ==
    /\ \A i \in DOMAIN started_calls :
           CancelCustomJobRequest(started_calls[i]) = job_run.name
    /\ run_outcome.kind = "returned" =>
           CancelCustomJobRequest(run_outcome.identifier) = job_run.name

\* C19: while run() sleeps between two polls, a kill() on the same event
\* loop that has not returned yet can take its next step
C19_SleepIsSuspensionPoint ==
    (pc = "sleep" /\ kill_pc # "done") => ENABLED SameLoopKill

\* C20: no step of kill() changes what the watch of run() holds (the handle,
\* the last observed state, the start time, the snapshot); and when kill()'s
\* request was accepted and a poll of run() has shown the job CANCELLED with
\* an empty error message, run() ends by returning status code 1
C20_KillLeavesRunToItsPolls ==
    /\ [][ kill_pc' # kill_pc =>
               UNCHANGED <<pc, job_run, state, last_state, t0, watched>> ]_vars
    /\ []( ( /\ pc = "done"
             /\ cancel_reply = <<"ok">>
             /\ watched = remote_job
             /\ watched.state = JOB_STATE_CANCELLED
             /\ watched.error = <<>> )
           => run_outcome = Returned(watched.display_name, 1) )

====
